---- MODULE Spec2Model ----
(***************************************************************************)
(* Mini SQL database engine: the query parser (sql_parser.py) and the      *)
(* query executor (query_executor.py), and the command-line engine that    *)
(* loads a table and runs queries against it (main.py, data_loader.py).    *)
(*                                                                         *)
(* A text is a sequence of one-character strings.  A value is a record     *)
(* [kind, s, n, k]: kind "str" carries the text s, kind "int" the integer  *)
(* n, kind "float" the decimal n / 10^k (normalised: k is minimal), kind   *)
(* "none" is Python's None.  A row is Python's insertion-ordered dict: a   *)
(* sequence of [key, val] records with pairwise distinct keys.             *)
(***************************************************************************)
EXTENDS Integers, Sequences, FiniteSets, TLC

VARIABLES query, data, pc, parsed, idx, row_val, filtered, result, stages

\* SQLEngine's fields (self.data, self.table_name, self.is_loaded).
VARIABLES self_data, table_name, is_loaded

\* The interactive session: what the last command printed, the file paths
\* given to load_table so far, and the number of commands read.
VARIABLES printed, loads, steps

engineVars == <<self_data, table_name, is_loaded>>

sessionVars == <<printed, loads, steps>>

vars == <<query, data, pc, parsed, idx, row_val, filtered, result, stages,
          engineVars, sessionVars>>

(***************************************************************************)
(* Characters                                                              *)
(***************************************************************************)
LowerLetters ==
  <<"a","b","c","d","e","f","g","h","i","j","k","l","m",
    "n","o","p","q","r","s","t","u","v","w","x","y","z">>

UpperLetters ==
  <<"A","B","C","D","E","F","G","H","I","J","K","L","M",
    "N","O","P","Q","R","S","T","U","V","W","X","Y","Z">>

DigitChars == <<"0","1","2","3","4","5","6","7","8","9">>

\* The characters of the model in code point order (str comparison in
\* Python is by code point).
AsciiOrder ==
  <<" ", "!", "'", "(", ")", "*", ",", ".">> \o DigitChars \o
  <<"<", "=", ">">> \o UpperLetters \o <<"_">> \o LowerLetters

Range(f) == {f[i] : i \in DOMAIN f}

Code(c) == CHOOSE i \in DOMAIN AsciiOrder : AsciiOrder[i] = c

IsSpace(c) == c = " "

DigitSet == Range(DigitChars)

IsDigit(c) == c \in DigitSet

DigitVal(c) == (CHOOSE i \in DOMAIN DigitChars : DigitChars[i] = c) - 1

\* The regex class \w.
WordChars ==
  Range(LowerLetters) \union Range(UpperLetters) \union Range(DigitChars) \union {"_"}

IsWord(c) == c \in WordChars

\* Case folding of re.IGNORECASE.
Upper(c) ==
  IF c \in Range(LowerLetters)
  THEN UpperLetters[CHOOSE i \in DOMAIN LowerLetters : LowerLetters[i] = c]
  ELSE c

(***************************************************************************)
(* Text helpers (str methods and regex pieces)                             *)
(***************************************************************************)
RECURSIVE SpaceEnd(_, _)
\* Greedy \s*: the first position at or after i that holds no space.
SpaceEnd(s, i) == IF i <= Len(s) /\ IsSpace(s[i]) THEN SpaceEnd(s, i + 1) ELSE i

RECURSIVE WordEnd(_, _)
\* Greedy [\w]*: the first position at or after i that holds no word character.
WordEnd(s, i) == IF i <= Len(s) /\ IsWord(s[i]) THEN WordEnd(s, i + 1) ELSE i

RECURSIVE SpaceStart(_, _)
\* The last position at or before i that holds no space (0 if none).
SpaceStart(s, i) == IF i >= 1 /\ IsSpace(s[i]) THEN SpaceStart(s, i - 1) ELSE i

\* str.strip()
Strip(s) == SubSeq(s, SpaceEnd(s, 1), SpaceStart(s, Len(s)))

\* A literal keyword of a pattern at position i, case-insensitive.
MatchWord(s, i, kw) ==
  /\ i + Len(kw) - 1 <= Len(s)
  /\ \A j \in 1..Len(kw) : Upper(s[i + j - 1]) = kw[j]

\* A literal of a pattern at position i, case-sensitive.
MatchLit(s, i, lit) ==
  /\ i + Len(lit) - 1 <= Len(s)
  /\ \A j \in 1..Len(lit) : s[i + j - 1] = lit[j]

RECURSIVE SplitAt(_, _, _)
\* str.split(sep) for a one-character sep; cur is the piece being read.
SplitAt(s, sep, cur) ==
  IF s = <<>> THEN <<cur>>
  ELSE IF Head(s) = sep THEN <<cur>> \o SplitAt(Tail(s), sep, <<>>)
  ELSE SplitAt(Tail(s), sep, Append(cur, Head(s)))

Split(s, sep) == SplitAt(s, sep, <<>>)

Contains(s, c) == \E i \in 1..Len(s) : s[i] = c

kSELECT == <<"S","E","L","E","C","T">>
kFROM == <<"F","R","O","M">>
kWHERE == <<"W","H","E","R","E">>
kCOUNT == <<"C","O","U","N","T">>
StarT == <<"*">>

(***************************************************************************)
(* Values                                                                  *)
(***************************************************************************)
StrV(s) == [kind |-> "str", s |-> s, n |-> 0, k |-> 0]
IntV(n) == [kind |-> "int", s |-> <<>>, n |-> n, k |-> 0]
NoneV == [kind |-> "none", s |-> <<>>, n |-> 0, k |-> 0]

RECURSIVE Pow10(_)
Pow10(k) == IF k = 0 THEN 1 ELSE 10 * Pow10(k - 1)

RECURSIVE FloatV(_, _)
\* The float n / 10^k, normalised.
FloatV(n, k) ==
  IF k > 0 /\ n % 10 = 0 THEN FloatV(n \div 10, k - 1)
  ELSE [kind |-> "float", s |-> <<>>, n |-> n, k |-> k]

RECURSIVE DigitsVal(_, _)
\* The number a digit string spells, acc being the value read so far.
DigitsVal(s, acc) ==
  IF s = <<>> THEN acc ELSE DigitsVal(Tail(s), 10 * acc + DigitVal(Head(s)))

AllDigits(s) == \A i \in 1..Len(s) : IsDigit(s[i])

RECURSIVE Digits(_)
\* The decimal spelling of a natural number.
Digits(n) ==
  IF n < 10 THEN <<DigitChars[n + 1]>>
  ELSE Digits(n \div 10) \o <<DigitChars[(n % 10) + 1]>>

RECURSIVE PadDigits(_, _)
\* The decimal spelling of n, zero-padded on the left to k digits.
PadDigits(n, k) ==
  IF k = 0 THEN <<>> ELSE PadDigits(n \div 10, k - 1) \o <<DigitChars[(n % 10) + 1]>>

\* int(text): surrounding whitespace is ignored, the rest is a digit string.
\* (Signs, underscores and non-ASCII digits are outside the model's alphabet.)
PyIntOfText(s) ==
  LET t == Strip(s) IN
  IF t # <<>> /\ AllDigits(t)
  THEN [ok |-> TRUE, v |-> IntV(DigitsVal(t, 0))]
  ELSE [ok |-> FALSE, v |-> NoneV]

\* float(text): digits, digits "." [digits] or "." digits.
\* (Signs, exponents, inf and nan are outside the model's alphabet.)
PyFloatOfText(s) ==
  LET t == Strip(s)
      dots == {i \in 1..Len(t) : t[i] = "."}
  IN
  IF t # <<>> /\ AllDigits(t)
  THEN [ok |-> TRUE, v |-> FloatV(DigitsVal(t, 0), 0)]
  ELSE IF Cardinality(dots) = 1
  THEN LET d == CHOOSE i \in dots : TRUE
           ip == SubSeq(t, 1, d - 1)
           fp == SubSeq(t, d + 1, Len(t))
       IN IF AllDigits(ip) /\ AllDigits(fp) /\ Len(ip) + Len(fp) >= 1
          THEN [ok |-> TRUE, v |-> FloatV(DigitsVal(ip \o fp, 0), Len(fp))]
          ELSE [ok |-> FALSE, v |-> NoneV]
  ELSE [ok |-> FALSE, v |-> NoneV]

\* str(value)
PyStr(v) ==
  CASE v.kind = "str" -> v.s
    [] v.kind = "int" -> Digits(v.n)
    [] v.kind = "float" ->
         IF v.k = 0 THEN Digits(v.n) \o <<".", "0">>
         ELSE Digits(v.n \div Pow10(v.k)) \o <<".">> \o PadDigits(v.n % Pow10(v.k), v.k)
    [] OTHER -> <<"N","o","n","e">>

(***************************************************************************)
(* sql_parser.py                                                           *)
(***************************************************************************)
NoWhere == [present |-> FALSE, col |-> <<>>, op |-> <<>>, val |-> NoneV]
NoAggregate == [present |-> FALSE, function |-> <<>>, column |-> <<>>]

\* _parse_value: a quoted text, else a number.
ParseValue(val_str0) ==
  LET val_str == Strip(val_str0) IN
  IF val_str # <<>> /\ Head(val_str) = "'" /\ val_str[Len(val_str)] = "'"
  THEN [ok |-> TRUE, v |-> StrV(SubSeq(val_str, 2, Len(val_str) - 1))]
  ELSE IF Contains(val_str, ".") THEN PyFloatOfText(val_str)
  ELSE PyIntOfText(val_str)

\* The operator alternation of the WHERE pattern, in the order the regex
\* engine tries it.
OpAlternativesSingleFirst ==
  << <<"=">>, <<">">>, <<"<">>, <<"!", "=">>, <<">", "=">>, <<"<", "=">> >>

OpAlternatives ==
  << <<"=">>, <<"!", "=">>, <<">", "=">>, <<"<", "=">>, <<">">>, <<"<">> >>

\* re.match of ([\w]+)\s*(=|!=|>=|<=|>|<)\s*(.+) : the three groups.
\* [\w]+ and \s* are greedy and giving characters back never helps (no
\* operator starts with a word character or a space); an alternative is
\* taken only if a character is left for (.+).
MatchWhere(s) ==
  LET w == WordEnd(s, 1)
      sp == SpaceEnd(s, w)
      fits == {a \in DOMAIN OpAlternatives :
                 /\ MatchLit(s, sp, OpAlternatives[a])
                 /\ sp + Len(OpAlternatives[a]) <= Len(s)}
  IN
  IF w = 1 \/ fits = {} THEN [ok |-> FALSE, col |-> <<>>, op |-> <<>>, val |-> <<>>]
  ELSE LET a == CHOOSE x \in fits : \A y \in fits : x <= y
           op == OpAlternatives[a]
           v == SpaceEnd(s, sp + Len(op))
       IN [ok |-> TRUE,
           col |-> SubSeq(s, 1, w - 1),
           op |-> op,
           val |-> IF v > Len(s) THEN <<" ">> ELSE SubSeq(s, v, Len(s))]

\* _parse_where_clause
ParseWhereClause(where_part0) ==
  LET where_part == Strip(where_part0)
      m == MatchWhere(where_part)
  IN
  IF ~m.ok THEN [ok |-> FALSE, err |-> "Invalid WHERE clause syntax", clause |-> NoWhere]
  ELSE LET parsed_val == ParseValue(Strip(m.val)) IN
       IF ~parsed_val.ok THEN [ok |-> FALSE, err |-> "Invalid value", clause |-> NoWhere]
       ELSE [ok |-> TRUE, err |-> "",
             clause |-> [present |-> TRUE, col |-> Strip(m.col), op |-> Strip(m.op),
                         val |-> parsed_val.v]]

\* re.match of COUNT\s*\(\s*(\*|[\w]+)\s*\) , case-insensitive, at the start
\* of the select part; nothing anchors its end.
MatchCount(s) ==
  LET p == SpaceEnd(s, Len(kCOUNT) + 1)
      q == SpaceEnd(s, p + 1)
      r == IF q <= Len(s) /\ s[q] = "*" THEN q + 1 ELSE WordEnd(s, q)
      u == SpaceEnd(s, r)
  IN
  IF /\ MatchWord(s, 1, kCOUNT)
     /\ p <= Len(s) /\ s[p] = "("
     /\ r > q
     /\ u <= Len(s) /\ s[u] = ")"
  THEN [ok |-> TRUE, column |-> SubSeq(s, q, r - 1)]
  ELSE [ok |-> FALSE, column |-> <<>>]

\* re.match(r'^[\w]+$', col)
IsColumnName(col) == col # <<>> /\ \A i \in 1..Len(col) : IsWord(col[i])

\* _parse_select_clause
ParseSelectClause(select_part0) ==
  LET select_part == Strip(select_part0)
      count_match == MatchCount(select_part)
      pieces == Split(select_part, ",")
      columns == [i \in DOMAIN pieces |-> Strip(pieces[i])]
  IN
  IF count_match.ok
  THEN [ok |-> TRUE, err |-> "", select_cols |-> <<StarT>>,
        aggregate |-> [present |-> TRUE, function |-> kCOUNT,
                       column |-> Strip(count_match.column)]]
  ELSE IF select_part = StarT
  THEN [ok |-> TRUE, err |-> "", select_cols |-> <<StarT>>, aggregate |-> NoAggregate]
  ELSE IF \E i \in DOMAIN columns : ~IsColumnName(columns[i])
  THEN [ok |-> FALSE, err |-> "Invalid column name", select_cols |-> <<>>,
        aggregate |-> NoAggregate]
  ELSE [ok |-> TRUE, err |-> "", select_cols |-> columns, aggregate |-> NoAggregate]

\* \s+FROM\s+[\w]+ matches at position j.  Both \s+ are greedy and must run
\* up to the keyword and up to the first word character.
FromAt(s, j) ==
  LET a == SpaceEnd(s, j)
      b == SpaceEnd(s, a + Len(kFROM))
  IN /\ j <= Len(s)
     /\ a > j
     /\ MatchWord(s, a, kFROM)
     /\ b > a + Len(kFROM)
     /\ b <= Len(s)
     /\ IsWord(s[b])

\* re.match of SELECT\s+(.*?)\s+FROM\s+([\w]+)(?:\s+WHERE\s+(.+))? ,
\* case-insensitive: the three groups.  The match is anchored at the start
\* of the text only.  The first \s+ is greedy and (.*?) lazy: the select
\* part ends at the first place after the spaces where \s+FROM\s+\w matches;
\* if there is none, \s+ gives one space back and the select part is empty.
MatchSelect(s) ==
  LET e == SpaceEnd(s, Len(kSELECT) + 1)
      js == {j \in e..Len(s) : FromAt(s, j)}
      j == IF js # {} THEN CHOOSE x \in js : \A y \in js : x <= y ELSE e - 1
      a == SpaceEnd(s, j)
      b == SpaceEnd(s, a + Len(kFROM))
      w == WordEnd(s, b)
      c == SpaceEnd(s, w)
      d == SpaceEnd(s, c + Len(kWHERE))
      hasWhere == /\ c > w
                  /\ MatchWord(s, c, kWHERE)
                  /\ d > c + Len(kWHERE)
                  /\ (d <= Len(s) \/ d > c + Len(kWHERE) + 1)
  IN
  IF /\ MatchWord(s, 1, kSELECT)
     /\ e > Len(kSELECT) + 1
     /\ (js # {} \/ (e > Len(kSELECT) + 2 /\ FromAt(s, e - 1)))
  THEN [ok |-> TRUE,
        g1 |-> SubSeq(s, e, j - 1),
        g2 |-> SubSeq(s, b, w - 1),
        has3 |-> hasWhere,
        g3 |-> IF ~hasWhere THEN <<>>
               ELSE IF d <= Len(s) THEN SubSeq(s, d, Len(s)) ELSE <<" ">>]
  ELSE [ok |-> FALSE, g1 |-> <<>>, g2 |-> <<>>, has3 |-> FALSE, g3 |-> <<>>]

ParseFailure(msg) ==
  [ok |-> FALSE, err |-> msg, select_cols |-> <<>>, from_table |-> <<>>,
   where_clause |-> NoWhere, aggregate |-> NoAggregate]

\* parse_query
ParseQuery(query0) ==
  LET q == Strip(query0)
      match == MatchSelect(q)
      select_part == Strip(match.g1)
      from_table == Strip(match.g2)
      where_part == IF match.has3 THEN Strip(match.g3) ELSE <<>>
      sel == ParseSelectClause(select_part)
      whr == IF where_part # <<>> THEN ParseWhereClause(where_part)
             ELSE [ok |-> TRUE, err |-> "", clause |-> NoWhere]
  IN
  IF q = <<>> THEN ParseFailure("Empty query provided.")
  ELSE IF ~match.ok THEN ParseFailure("Invalid SQL syntax")
  ELSE IF ~sel.ok THEN ParseFailure(sel.err)
  ELSE IF ~whr.ok THEN ParseFailure(whr.err)
  ELSE [ok |-> TRUE, err |-> "", select_cols |-> sel.select_cols,
        from_table |-> from_table, where_clause |-> whr.clause,
        aggregate |-> sel.aggregate]

(***************************************************************************)
(* query_executor.py                                                       *)
(***************************************************************************)
HasKey(row, col) == \E i \in 1..Len(row) : row[i].key = col

Get(row, col) == row[CHOOSE i \in 1..Len(row) : row[i].key = col].val

\* dict item assignment: an existing key keeps its place.
Put(row, col, v) ==
  IF HasKey(row, col)
  THEN [i \in 1..Len(row) |-> IF row[i].key = col THEN [key |-> col, val |-> v] ELSE row[i]]
  ELSE Append(row, [key |-> col, val |-> v])

IsNumber(v) == v.kind \in {"int", "float"}

\* float(value); None raises TypeError, a bad text ValueError.
PyFloat(v) ==
  CASE v.kind = "str" -> PyFloatOfText(v.s)
    [] v.kind = "int" -> [ok |-> TRUE, v |-> FloatV(v.n, 0)]
    [] v.kind = "float" -> [ok |-> TRUE, v |-> v]
    [] OTHER -> [ok |-> FALSE, v |-> NoneV]

\* int(value); a float is truncated.
PyInt(v) ==
  CASE v.kind = "str" -> PyIntOfText(v.s)
    [] v.kind = "int" -> [ok |-> TRUE, v |-> v]
    [] v.kind = "float" -> [ok |-> TRUE, v |-> IntV(v.n \div Pow10(v.k))]
    [] OTHER -> [ok |-> FALSE, v |-> NoneV]

\* Variant: a number cell is left a number when the literal is a text.
CoerceValueKeepsNumbers(cell_val, comparison_val) ==
  IF cell_val.kind = comparison_val.kind THEN [ok |-> TRUE, v |-> cell_val]
  ELSE IF comparison_val.kind = "str"
  THEN [ok |-> TRUE, v |-> IF IsNumber(cell_val) THEN cell_val ELSE StrV(PyStr(cell_val))]
  ELSE IF IsNumber(comparison_val)
  THEN IF comparison_val.kind = "float" THEN PyFloat(cell_val)
       ELSE IF Contains(PyStr(cell_val), ".") THEN PyFloat(cell_val)
       ELSE PyInt(cell_val)
  ELSE [ok |-> TRUE, v |-> cell_val]

\* Variant: the kind of the literal alone decides, a decimal point in the
\* cell is not looked at.
CoerceValueByLiteralKind(cell_val, comparison_val) ==
  IF cell_val.kind = comparison_val.kind THEN [ok |-> TRUE, v |-> cell_val]
  ELSE IF comparison_val.kind = "str" THEN [ok |-> TRUE, v |-> StrV(PyStr(cell_val))]
  ELSE IF IsNumber(comparison_val)
  THEN IF comparison_val.kind = "float" THEN PyFloat(cell_val) ELSE PyInt(cell_val)
  ELSE [ok |-> TRUE, v |-> cell_val]

\* _coerce_value; ok = FALSE is the ValueError it raises.
CoerceValue(cell_val, comparison_val) ==
  IF cell_val.kind = comparison_val.kind THEN [ok |-> TRUE, v |-> cell_val]
  ELSE IF comparison_val.kind = "str" THEN [ok |-> TRUE, v |-> StrV(PyStr(cell_val))]
  ELSE IF IsNumber(comparison_val)
  THEN IF comparison_val.kind = "float" THEN PyFloat(cell_val)
       ELSE IF Contains(PyStr(cell_val), ".") THEN PyFloat(cell_val)
       ELSE PyInt(cell_val)
  ELSE [ok |-> TRUE, v |-> cell_val]

RECURSIVE LexLess(_, _)
\* str < str: by code point, a proper prefix being smaller.
LexLess(a, b) ==
  IF b = <<>> THEN FALSE
  ELSE IF a = <<>> THEN TRUE
  ELSE IF Head(a) # Head(b) THEN Code(Head(a)) < Code(Head(b))
  ELSE LexLess(Tail(a), Tail(b))

\* Python's == on values: numbers compare by value across int and float,
\* a text never equals a number, None equals only None.
PyEq(a, b) ==
  IF IsNumber(a) /\ IsNumber(b) THEN a.n * Pow10(b.k) = b.n * Pow10(a.k)
  ELSE a = b

\* Python's < on values is defined between two texts and between two numbers.
Orderable(a, b) ==
  \/ a.kind = "str" /\ b.kind = "str"
  \/ IsNumber(a) /\ IsNumber(b)

PyLess(a, b) ==
  IF a.kind = "str" THEN LexLess(a.s, b.s)
  ELSE a.n * Pow10(b.k) < b.n * Pow10(a.k)

opEQ == <<"=">>
opNE == <<"!", "=">>
opGT == <<">">>
opLT == <<"<">>
opGE == <<">", "=">>
opLE == <<"<", "=">>
Operators == {opEQ, opNE, opGT, opLT, opGE, opLE}

\* _compare; status "TypeError" is the exception Python raises when the
\* two operands of an ordering have no common order.
Compare(cell_val, op, comparison_val) ==
  IF op = opEQ THEN [status |-> "ok", b |-> PyEq(cell_val, comparison_val)]
  ELSE IF op = opNE THEN [status |-> "ok", b |-> ~PyEq(cell_val, comparison_val)]
  ELSE IF op \in {opGT, opLT, opGE, opLE}
  THEN IF ~Orderable(cell_val, comparison_val) THEN [status |-> "TypeError", b |-> FALSE]
       ELSE [status |-> "ok",
             b |-> CASE op = opGT -> PyLess(comparison_val, cell_val)
                     [] op = opLT -> PyLess(cell_val, comparison_val)
                     [] op = opGE -> ~PyLess(cell_val, comparison_val)
                     [] op = opLE -> ~PyLess(comparison_val, cell_val)]
  ELSE [status |-> "ExecutionError", b |-> FALSE]

\* Variant: a row whose cell cannot be coerced is dropped instead of
\* failing the query.
WhereRowSkipsBadCell(row, where_clause) ==
  IF ~HasKey(row, where_clause.col)
  THEN [status |-> "ExecutionError", msg |-> "column not found", keep |-> FALSE,
        row_val |-> NoneV]
  ELSE LET cell == Get(row, where_clause.col)
           coerced == CoerceValue(cell, where_clause.val)
       IN
       IF ~coerced.ok
       THEN [status |-> "ok", msg |-> "", keep |-> FALSE, row_val |-> cell]
       ELSE LET c == Compare(coerced.v, where_clause.op, where_clause.val) IN
            [status |-> "ok", msg |-> "", keep |-> c.b, row_val |-> coerced.v]

\* The body of the loop of _apply_where_clause for one row: the row is
\* kept, dropped, or the query fails; row_val is the cell as last assigned.
WhereRow(row, where_clause) ==
  IF ~HasKey(row, where_clause.col)
  THEN [status |-> "ExecutionError", msg |-> "column not found", keep |-> FALSE,
        row_val |-> NoneV]
  ELSE LET cell == Get(row, where_clause.col)
           coerced == CoerceValue(cell, where_clause.val)
       IN
       IF ~coerced.ok
       THEN [status |-> "ExecutionError", msg |-> "cannot compare", keep |-> FALSE,
             row_val |-> cell]
       ELSE LET c == Compare(coerced.v, where_clause.op, where_clause.val) IN
            IF c.status = "ExecutionError"
            THEN [status |-> "ExecutionError", msg |-> "unknown operator", keep |-> FALSE,
                  row_val |-> coerced.v]
            ELSE IF c.status = "TypeError"
            THEN [status |-> "TypeError", msg |-> "", keep |-> FALSE, row_val |-> coerced.v]
            ELSE [status |-> "ok", msg |-> "", keep |-> c.b, row_val |-> coerced.v]

\* Variant: the kept row is put in front.
WhereAppendFront(acc, row, keep) == IF keep THEN <<row>> \o acc ELSE acc

\* filtered.append(row) when the comparison holds.
WhereAppend(acc, row, keep) == IF keep THEN Append(acc, row) ELSE acc

\* Variant: every row that has the column is counted.
CountedIfPresent(row, col) == HasKey(row, col)

\* The rows COUNT(column) counts.
Counted(row, col) ==
  /\ HasKey(row, col)
  /\ Get(row, col).kind # "none"
  /\ Get(row, col) # StrV(<<>>)

RECURSIVE CountRows(_, _)
CountRows(rows, col) ==
  IF rows = <<>> THEN 0
  ELSE (IF Counted(Head(rows), col) THEN 1 ELSE 0) + CountRows(Tail(rows), col)

CountKey(col) == kCOUNT \o <<"(">> \o col \o <<")">>

\* Variant: the column is looked for in every row.
CountColumnMissingAnyRow(rows, col) == \E i \in 1..Len(rows) : ~HasKey(rows[i], col)

\* The column check of _apply_aggregation for COUNT(column).
CountColumnMissing(rows, col) == rows # <<>> /\ ~HasKey(rows[1], col)

\* _apply_aggregation
ApplyAggregation(rows, aggregate) ==
  LET func == [i \in DOMAIN aggregate.function |-> Upper(aggregate.function[i])]
      col == aggregate.column
  IN
  IF func # kCOUNT
  THEN [ok |-> FALSE, msg |-> "unsupported aggregate function", row |-> <<>>]
  ELSE IF col = StarT
  THEN [ok |-> TRUE, msg |-> "", row |-> <<[key |-> CountKey(StarT), val |-> IntV(Len(rows))]>>]
  ELSE IF CountColumnMissing(rows, col)
  THEN [ok |-> FALSE, msg |-> "column not found", row |-> <<>>]
  ELSE [ok |-> TRUE, msg |-> "",
        row |-> <<[key |-> CountKey(col), val |-> IntV(CountRows(rows, col))]>>]

\* Variant: the projected row is built by walking the row's own columns and
\* keeping the requested ones, so it comes out in the row's column order.
ProjectRowInRowOrder(row, select_cols, acc) ==
  LET Requested(c) == \E j \in 1..Len(select_cols) : select_cols[j] = c.key IN
  acc \o SelectSeq(row, Requested)

RECURSIVE ProjectRow(_, _, _)
\* The inner loop of _apply_projection: acc is projected_row so far.
ProjectRow(row, select_cols, acc) ==
  IF select_cols = <<>> THEN acc
  ELSE ProjectRow(row, Tail(select_cols), Put(acc, Head(select_cols), Get(row, Head(select_cols))))

\* Variant: a column a row lacks is left out of the projected row.
ApplyProjectionSkipsMissing(rows, select_cols) ==
  IF rows = <<>> THEN [ok |-> TRUE, msg |-> "", rows |-> <<>>]
  ELSE IF select_cols = <<StarT>> THEN [ok |-> TRUE, msg |-> "", rows |-> rows]
  ELSE [ok |-> TRUE, msg |-> "",
        rows |-> [i \in 1..Len(rows) |->
                    LET Has(c) == HasKey(rows[i], c) IN
                    ProjectRow(rows[i], SelectSeq(select_cols, Has), <<>>)]]

\* _apply_projection
ApplyProjection(rows, select_cols) ==
  IF rows = <<>> THEN [ok |-> TRUE, msg |-> "", rows |-> <<>>]
  ELSE IF select_cols = <<StarT>> THEN [ok |-> TRUE, msg |-> "", rows |-> rows]
  ELSE IF \E i \in 1..Len(rows) : \E j \in 1..Len(select_cols) : ~HasKey(rows[i], select_cols[j])
  THEN [ok |-> FALSE, msg |-> "column not found", rows |-> <<>>]
  ELSE [ok |-> TRUE, msg |-> "",
        rows |-> [i \in 1..Len(rows) |-> ProjectRow(rows[i], select_cols, <<>>)]]

\* Variant: the placeholder select list ['*'] is taken for the aggregate.
UsesAggregationIfStar(parsed_query) == parsed_query.select_cols = <<StarT>>

\* `if parsed_query['aggregate']:` in execute_query
UsesAggregation(parsed_query) == parsed_query.aggregate.present

(***************************************************************************)
(* One run: a query text is parsed and, if it parses, executed against the *)
(* rows, as the callers of parse_query and execute_query do.               *)
(***************************************************************************)
Pending == [status |-> "pending", msg |-> "", rows |-> <<>>]
NotParsed == ParseFailure("")

Failure(status, msg) == [status |-> status, msg |-> msg, rows |-> <<>>]
Success(rows) == [status |-> "ok", msg |-> "", rows |-> rows]

\* parsed = parse_query(query)
Parse ==
  /\ pc = "parse"
  /\ parsed' = ParseQuery(query)
  /\ IF parsed'.ok
     THEN pc' = "where" /\ result' = result
     ELSE pc' = "done" /\ result' = Failure("QueryParseError", parsed'.err)
  /\ UNCHANGED <<query, data, idx, row_val, filtered, stages, engineVars, sessionVars>>

\* execute_query calls _apply_where_clause, which returns the rows as they
\* are when there is no WHERE clause and else starts its loop.
WhereStart ==
  /\ pc = "where"
  /\ stages' = Append(stages, "where")
  /\ IF ~parsed.where_clause.present
     THEN pc' = "select" /\ filtered' = data
     ELSE pc' = "loop" /\ filtered' = <<>>
  /\ idx' = 1
  /\ UNCHANGED <<query, data, parsed, row_val, result, engineVars, sessionVars>>

\* One iteration of `for row in data`.
WhereLoop ==
  /\ pc = "loop"
  /\ idx <= Len(data)
  /\ LET r == WhereRow(data[idx], parsed.where_clause) IN
     /\ row_val' = r.row_val
     /\ IF r.status = "ok"
        THEN /\ filtered' = WhereAppend(filtered, data[idx], r.keep)
             /\ idx' = idx + 1
             /\ UNCHANGED <<pc, result>>
        ELSE /\ result' = Failure(r.status, r.msg)
             /\ pc' = "done"
             /\ UNCHANGED <<filtered, idx>>
  /\ UNCHANGED <<query, data, parsed, stages, engineVars, sessionVars>>

\* The loop is over: `return filtered`.
WhereReturn ==
  /\ pc = "loop"
  /\ idx > Len(data)
  /\ pc' = "select"
  /\ UNCHANGED <<query, data, parsed, idx, row_val, filtered, result, stages, engineVars, sessionVars>>

\* Step 2 of execute_query: `return [result]`.
Aggregate ==
  /\ pc = "select"
  /\ UsesAggregation(parsed)
  /\ stages' = Append(stages, "aggregate")
  /\ LET r == ApplyAggregation(filtered, parsed.aggregate) IN
     result' = IF r.ok THEN Success(<<r.row>>) ELSE Failure("ExecutionError", r.msg)
  /\ pc' = "done"
  /\ UNCHANGED <<query, data, parsed, idx, row_val, filtered, engineVars, sessionVars>>

\* Step 3 of execute_query.
Project ==
  /\ pc = "select"
  /\ ~UsesAggregation(parsed)
  /\ stages' = Append(stages, "projection")
  /\ LET r == ApplyProjection(filtered, parsed.select_cols) IN
     result' = IF r.ok THEN Success(r.rows) ELSE Failure("ExecutionError", r.msg)
  /\ pc' = "done"
  /\ UNCHANGED <<query, data, parsed, idx, row_val, filtered, engineVars, sessionVars>>

Next == Parse \/ WhereStart \/ WhereLoop \/ WhereReturn \/ Aggregate \/ Project

(***************************************************************************)
(* Inputs                                                                  *)
(***************************************************************************)
MaxRows == 2

sp == <<" ">>
colA == <<"a">>
colN == <<"n">>
colZ == <<"z">>
tblT == <<"t">>
Quoted(s) == <<"'">> \o s \o <<"'">>

Cell(key, val) == [key |-> key, val |-> val]

\* Rows as csv.DictReader hands them over (text cells, None for a missing
\* field) and rows of a caller that omits a key.
Row2(n, a) == <<Cell(colN, StrV(n)), Cell(colA, a)>>

Rows ==
  { Row2(<<"x">>, StrV(<<"3">>)), Row2(<<"y">>, StrV(<<"3">>)),
    Row2(<<"y">>, StrV(<<"2", "5">>)), Row2(<<"x">>, StrV(<<>>)),
    Row2(<<"y">>, NoneV), <<Cell(colN, StrV(<<"x">>))>> }

RECURSIVE SeqsUpTo(_, _)
SeqsUpTo(S, n) ==
  IF n = 0 THEN {<<>>}
  ELSE LET shorter == SeqsUpTo(S, n - 1) IN
       shorter \union {Append(s, x) : s \in {y \in shorter : Len(y) = n - 1}, x \in S}

Datasets == SeqsUpTo(Rows, MaxRows)

OpTexts == {opEQ, opNE, opGT, opLT, opGE, opLE}

SelectTexts ==
  { StarT, colN, <<"a", ",", " ", "n">>, <<"a", ",", "n", ",", "a">>, colZ,
    kCOUNT \o <<"(", "*", ")">>, kCOUNT \o <<"(", "a", ")">>, kCOUNT \o <<"(", "z", ")">> }

WhereTexts ==
  {<<>>}
  \union {sp \o kWHERE \o sp \o colA \o sp \o op \o sp \o lit :
            op \in OpTexts, lit \in {Quoted(<<"3">>), <<"3">>}}
  \union {sp \o kWHERE \o sp \o colA \o sp \o opGT \o sp \o <<"2", ".", "5">>,
          sp \o kWHERE \o sp \o colZ \o sp \o opEQ \o sp \o <<"3">>}

QueryText(sel, tail) == kSELECT \o sp \o sel \o sp \o kFROM \o sp \o tblT \o tail

Queries == {QueryText(sel, tail) : sel \in SelectTexts, tail \in WhereTexts}

\* Query texts around the grammar: well-formed ones, and ones with a
\* misspelled or missing keyword, extra tokens, or a malformed WHERE part.
ParseSelectTexts ==
  { StarT, colA, <<"a", ",", " ", "n">>, <<"a", ",", "n">>,
    kCOUNT \o <<"(", "*", ")">>,
    <<"c", "o", "u", "n", "t", "(", " ", "a", " ", ")">>,
    kCOUNT \o <<"(", "*", ")", " ", "x">>,
    kCOUNT \o <<"(", "*", ")", ",", " ", "a">>,
    kCOUNT \o <<"(", ")">>,
    kCOUNT \o <<"(", "a">>,
    <<"a", " ", "b">>, <<"a", ",">>, <<"*", ",", "a">>, <<>> }

ParseOpTexts ==
  OpTexts \union
  { <<" ", "=", " ">>, <<"<", "=", ">">>, <<"=", "=">>, <<"<", ">">>,
    <<"=", "<">>, <<" ", ">", " ", "=", " ">>, <<" ", ">", "=">> }

ParseLiteralTexts ==
  { <<"3">>, <<"3", ".", "5">>, <<"3", ".">>, <<"3", " ", "x">>, <<"b">>, <<>>,
    Quoted(<<"b">>), Quoted(<<>>), <<"'">>, Quoted(<<"b">>) \o <<" ", "x">> }

ParseTailTexts ==
  { <<>>,
    <<" ", "O", "R", "D", "E", "R", " ", "B", "Y", " ", "a">>,
    sp \o kWHERE,
    sp \o kWHERE \o sp \o colA,
    sp \o <<"w", "h", "e", "r", "e">> \o sp \o colA \o opEQ \o <<"3">> }
  \union {sp \o kWHERE \o sp \o colA \o op \o lit :
            op \in ParseOpTexts, lit \in ParseLiteralTexts}

ParseHeads(sel) ==
  { kSELECT \o sp \o sel \o sp \o kFROM \o sp \o tblT,
    <<"s", "e", "l", "e", "c", "t">> \o sp \o sel \o sp \o <<"f", "r", "o", "m">> \o sp \o tblT,
    kSELECT \o sp \o sel \o sp \o <<"F", "O", "R", "M">> \o sp \o tblT,
    kSELECT \o sp \o sel,
    sp \o kSELECT \o sp \o sp \o sel \o sp \o sp \o kFROM \o sp \o sp \o tblT }

ParseQueries ==
  {<<>>, sp, <<"I", "N", "V", "A", "L", "I", "D", " ", "Q", "U", "E", "R", "Y">>}
  \union {h \o tail : h \in UNION {ParseHeads(sel) : sel \in ParseSelectTexts},
                      tail \in ParseTailTexts \union {sp}}

ParseDatasets ==
  { <<Row2(<<"x">>, StrV(<<"3">>)), Row2(<<"y">>, StrV(<<"2", "5">>))>>,
    <<Row2(<<"x">>, StrV(<<"b">>))>> }

\* One-row tables whose cell is a text, an integer, a float or None, and
\* WHERE clauses with a text, an integer and a float literal.
CoerceCells ==
  { StrV(<<"3">>), StrV(<<"2", "5">>), StrV(<<"3", ".", "5">>),
    StrV(<<"3", "0", ".", "5">>), StrV(<<" ", "3">>), StrV(<<>>), StrV(<<"x">>),
    NoneV, IntV(3), IntV(25), FloatV(35, 1), FloatV(3, 0) }

CoerceLiteralTexts ==
  { Quoted(<<"3">>), Quoted(<<"3", ".", "5">>), Quoted(<<>>), Quoted(<<"N", "o", "n", "e">>),
    <<"3">>, <<"3", "0">>, <<"3", ".", "5">>, <<"3", ".", "0">> }

CoerceQueries ==
  { QueryText(sel, tail) :
      sel \in {StarT, kCOUNT \o <<"(", "*", ")">>},
      tail \in {<<>>} \union {sp \o kWHERE \o sp \o colA \o sp \o op \o sp \o lit :
                                op \in OpTexts, lit \in CoerceLiteralTexts} }

CoerceDatasets == {<<Row2(<<"x">>, c)>> : c \in CoerceCells}

\* SQLEngine.__init__
InitEngine ==
  /\ self_data = <<>>
  /\ table_name = <<>>
  /\ is_loaded = FALSE

\* No command has been read.
InitSession ==
  /\ printed = ""
  /\ loads = <<>>
  /\ steps = 0

InitRun ==
  /\ pc = "parse"
  /\ parsed = NotParsed
  /\ idx = 1
  /\ row_val = NoneV
  /\ filtered = <<>>
  /\ result = Pending
  /\ stages = <<>>

Init ==
  /\ query \in Queries
  /\ data \in Datasets
  /\ InitRun
  /\ InitEngine
  /\ InitSession

Spec == Init /\ [][Next]_vars

InitParse ==
  /\ query \in ParseQueries
  /\ data \in ParseDatasets
  /\ InitRun
  /\ InitEngine
  /\ InitSession

SpecParse == InitParse /\ [][Next]_vars

InitCoerce ==
  /\ query \in CoerceQueries
  /\ data \in CoerceDatasets
  /\ InitRun
  /\ InitEngine
  /\ InitSession

SpecCoerce == InitCoerce /\ [][Next]_vars

(***************************************************************************)
(* data_loader.py and main.py: the command-line engine                     *)
(***************************************************************************)
RECURSIVE TokenEnd(_, _)
\* The first position at or after i that holds a space (str.split).
TokenEnd(s, i) == IF i <= Len(s) /\ ~IsSpace(s[i]) THEN TokenEnd(s, i + 1) ELSE i

\* parts = user_input.split(maxsplit=1), of a stripped text: parts[0], and
\* parts[1] (the empty text when there is no second part).
FirstPart(user_input) == SubSeq(user_input, 1, TokenEnd(user_input, 1) - 1)

SecondPart(user_input) ==
  SubSeq(user_input, SpaceEnd(user_input, TokenEnd(user_input, 1)), Len(user_input))

\* str.upper()
UpperText(s) == [i \in 1..Len(s) |-> Upper(s[i])]

\* The last position of s that holds c (0 if none).
LastIndexOf(s, c) ==
  LET at == {i \in 1..Len(s) : s[i] = c} IN
  IF at = {} THEN 0 ELSE CHOOSE i \in at : \A j \in at : j <= i

\* Path(file_path).name
PathName(file_path) == SubSeq(file_path, LastIndexOf(file_path, "/") + 1, Len(file_path))

\* Where the suffix of a file name starts: its last dot, unless that is the
\* first or the last character of the name (0 if there is no suffix).
SuffixAt(name) ==
  LET d == LastIndexOf(name, ".") IN IF d > 1 /\ d < Len(name) THEN d ELSE 0

\* Path(file_path).suffix
PathSuffix(file_path) ==
  LET name == PathName(file_path) IN
  IF SuffixAt(name) = 0 THEN <<>> ELSE SubSeq(name, SuffixAt(name), Len(name))

\* Path(file_path).stem
PathStem(file_path) ==
  LET name == PathName(file_path) IN
  IF SuffixAt(name) = 0 THEN name ELSE SubSeq(name, 1, SuffixAt(name) - 1)

\* The suffix test `path.suffix.lower() != '.csv'`, with both sides in capitals.
kCSV == UpperText(<<".", "c", "s", "v">>)

\* The files of the session.  A file is what load_csv sees of it: whether
\* the path exists, whether csv.DictReader finds a header line, and the
\* rows it yields.
pathT == <<"t", ".", "c", "s", "v">>
pathU == <<"u", ".", "C", "S", "V">>
pathDirT == <<"d", "/", "t", ".", "c", "s", "v">>
pathEmpty == <<"e", ".", "c", "s", "v">>
pathHeaderOnly == <<"h", ".", "c", "s", "v">>
pathText == <<"t", ".", "t", "x", "t">>
pathMissing == <<"m", ".", "c", "s", "v">>

Paths == {pathT, pathU, pathDirT, pathEmpty, pathHeaderOnly, pathText, pathMissing}

NoFile == [exists |-> FALSE, header |-> FALSE, rows |-> <<>>]

FileAt(file_path) ==
  CASE file_path = pathT ->
         [exists |-> TRUE, header |-> TRUE,
          rows |-> <<Row2(<<"x">>, StrV(<<"3">>)), Row2(<<"y">>, StrV(<<"2", "5">>))>>]
    [] file_path = pathU ->
         [exists |-> TRUE, header |-> TRUE, rows |-> <<Row2(<<"x">>, StrV(<<"b">>))>>]
    [] file_path = pathDirT ->
         [exists |-> TRUE, header |-> TRUE, rows |-> <<Row2(<<"y">>, StrV(<<"3">>))>>]
    [] file_path = pathEmpty -> [exists |-> TRUE, header |-> FALSE, rows |-> <<>>]
    [] file_path = pathHeaderOnly -> [exists |-> TRUE, header |-> TRUE, rows |-> <<>>]
    [] file_path = pathText ->
         [exists |-> TRUE, header |-> TRUE, rows |-> <<Row2(<<"x">>, StrV(<<"3">>))>>]
    [] OTHER -> NoFile

LoadFailure(err) == [ok |-> FALSE, err |-> err, rows |-> <<>>, table_name |-> <<>>]

\* load_csv
LoadCsv(file_path) ==
  LET f == FileAt(file_path) IN
  IF ~f.exists THEN LoadFailure("FileNotFoundError")
  ELSE IF UpperText(PathSuffix(file_path)) # kCSV THEN LoadFailure("ValueError: not a CSV file")
  ELSE IF ~f.header THEN LoadFailure("ValueError: no header row")
  ELSE IF f.rows = <<>> THEN LoadFailure("ValueError: no data rows")
  ELSE [ok |-> TRUE, err |-> "", rows |-> f.rows, table_name |-> PathStem(file_path)]

\* Variant: a failed load clears the engine.
LoadTableResetsOnFailure(self, file_path) ==
  LET r == LoadCsv(file_path) IN
  IF r.ok
  THEN [data |-> r.rows, table_name |-> r.table_name, is_loaded |-> TRUE,
        printed |-> "Successfully loaded"]
  ELSE [data |-> <<>>, table_name |-> <<>>, is_loaded |-> FALSE,
        printed |-> "Error loading file"]

\* SQLEngine.load_table: the engine after the call, and what it printed.
LoadTable(self, file_path) ==
  LET r == LoadCsv(file_path) IN
  IF r.ok
  THEN [data |-> r.rows, table_name |-> r.table_name, is_loaded |-> TRUE,
        printed |-> "Successfully loaded"]
  ELSE [data |-> self.data, table_name |-> self.table_name, is_loaded |-> self.is_loaded,
        printed |-> "Error loading file"]

\* Variant: the table name is compared without regard to case.
TableNameDiffersIgnoringCase(from_table, name) == UpperText(from_table) # UpperText(name)

\* `parsed['from_table'] != self.table_name` in execute_sql
TableNameDiffers(from_table, name) == from_table # name

kEXIT == <<"E", "X", "I", "T">>
kQUIT == <<"Q", "U", "I", "T">>
kHELP == <<"H", "E", "L", "P">>
kLOAD == <<"L", "O", "A", "D">>

\* command = parts[0].upper()
CommandOf(user_input) == UpperText(FirstPart(user_input))

MaxCommands == 3

\* The lines typed at the prompt.
LoadLines ==
  {kLOAD \o sp \o path : path \in Paths}
  \union {<<"l", "o", "a", "d">> \o sp \o sp \o pathT \o sp, kLOAD}

QueryLines ==
  { <<"S", "E", "L", "E", "C", "T", " ", "*", " ", "F", "R", "O", "M", " ", "t">>,
    <<"S", "E", "L", "E", "C", "T", " ", "a", ",", " ", "n", " ", "F", "R", "O", "M", " ", "t", " ", "W", "H", "E", "R", "E", " ", "a", " ", ">", " ", "3">>,
    <<"s", "e", "l", "e", "c", "t", " ", "c", "o", "u", "n", "t", "(", "a", ")", " ", "f", "r", "o", "m", " ", "t", " ", "w", "h", "e", "r", "e", " ", "n", " ", "=", " ", "'", "y", "'">>,
    <<"S", "E", "L", "E", "C", "T", " ", "*", " ", "F", "R", "O", "M", " ", "u">>,
    <<"S", "E", "L", "E", "C", "T", " ", "*", " ", "F", "R", "O", "M", " ", "T">>,
    <<"S", "E", "L", "E", "C", "T", " ", "z", " ", "F", "R", "O", "M", " ", "t">>,
    <<"S", "E", "L", "E", "C", "T", " ", "*", " ", "F", "O", "R", "M", " ", "t">>,
    <<"S", "E", "L", "E", "C", "T", " ", "*", " ", "F", "R", "O", "M", " ", "t", " ", "W", "H", "E", "R", "E", " ", "a", " ", ">">> }

OtherLines == {<<>>, sp, kHELP, <<"q", "u", "i", "t">>, kEXIT}

Lines == LoadLines \union QueryLines \union OtherLines

\* The locals of execute_sql and execute_query while no query runs.
NoRun ==
  /\ query = <<>>
  /\ data = <<>>
  /\ parsed = NotParsed
  /\ idx = 1
  /\ row_val = NoneV
  /\ filtered = <<>>
  /\ result = Pending
  /\ stages = <<>>

runVars == <<query, data, parsed, idx, row_val, filtered, result, stages>>

\* main(): an empty line is skipped.
MainContinue ==
  /\ pc = "prompt"
  /\ steps < MaxCommands
  /\ \E line \in Lines :
       /\ Strip(line) = <<>>
       /\ steps' = steps + 1
  /\ UNCHANGED <<pc, runVars, engineVars, printed, loads>>

\* main(): EXIT or QUIT leaves the loop.
MainExit ==
  /\ pc = "prompt"
  /\ steps < MaxCommands
  /\ \E line \in Lines :
       LET user_input == Strip(line) IN
       /\ user_input # <<>>
       /\ CommandOf(user_input) \in {kEXIT, kQUIT}
       /\ pc' = "exited"
       /\ printed' = "Goodbye"
       /\ steps' = steps + 1
  /\ UNCHANGED <<runVars, engineVars, loads>>

\* main(): HELP
MainHelp ==
  /\ pc = "prompt"
  /\ steps < MaxCommands
  /\ \E line \in Lines :
       LET user_input == Strip(line) IN
       /\ user_input # <<>>
       /\ CommandOf(user_input) = kHELP
       /\ printed' = "Help"
       /\ steps' = steps + 1
  /\ UNCHANGED <<pc, runVars, engineVars, loads>>

\* main(): LOAD <filepath>, the call of load_table included.
MainLoad ==
  /\ pc = "prompt"
  /\ steps < MaxCommands
  /\ \E line \in Lines :
       LET user_input == Strip(line)
           file_path == SecondPart(user_input)
           self == [data |-> self_data, table_name |-> table_name, is_loaded |-> is_loaded]
           after == LoadTable(self, file_path)
       IN
       /\ user_input # <<>>
       /\ CommandOf(user_input) = kLOAD
       /\ IF file_path = <<>>
          THEN /\ printed' = "LOAD command requires a file path"
               /\ UNCHANGED <<engineVars, loads>>
          ELSE /\ self_data' = after.data
               /\ table_name' = after.table_name
               /\ is_loaded' = after.is_loaded
               /\ printed' = after.printed
               /\ loads' = Append(loads, file_path)
       /\ steps' = steps + 1
  /\ UNCHANGED <<pc, runVars>>

\* main(): any other line goes to execute_sql, which checks that a table
\* is loaded, parses the text, checks the table name and calls
\* execute_query with the engine's rows.
ExecuteSql ==
  /\ pc = "prompt"
  /\ steps < MaxCommands
  /\ \E line \in Lines :
       LET user_input == Strip(line) IN
       /\ user_input # <<>>
       /\ CommandOf(user_input) \notin {kEXIT, kQUIT, kHELP, kLOAD}
       /\ query' = user_input
       /\ IF ~is_loaded
          THEN /\ printed' = "No table loaded"
               /\ result' = Failure("NoTableLoaded", "")
               /\ pc' = "done"
               /\ UNCHANGED <<parsed, data>>
          ELSE /\ parsed' = ParseQuery(user_input)
               /\ IF ~parsed'.ok
                  THEN /\ printed' = "Parse Error"
                       /\ result' = Failure("QueryParseError", parsed'.err)
                       /\ pc' = "done"
                       /\ UNCHANGED data
                  ELSE IF TableNameDiffers(parsed'.from_table, table_name)
                  THEN /\ printed' = "Table not found"
                       /\ result' = Failure("TableNotFound", "")
                       /\ pc' = "done"
                       /\ UNCHANGED data
                  ELSE /\ data' = self_data
                       /\ pc' = "where"
                       /\ UNCHANGED <<printed, result>>
       /\ steps' = steps + 1
  /\ UNCHANGED <<idx, row_val, filtered, stages, engineVars, loads>>

\* execute_sql after execute_query: the result is displayed, or the error
\* that was raised is printed; either way the prompt is next.
ExecuteSqlReturn ==
  /\ pc = "done"
  /\ printed' =
       IF stages = <<>> THEN printed
       ELSE CASE result.status = "ok" ->
                   IF result.rows = <<>> THEN "No results" ELSE "Rows returned"
              [] result.status = "ExecutionError" -> "Execution Error"
              [] OTHER -> "Unexpected Error"
  /\ pc' = "prompt"
  /\ query' = <<>>
  /\ data' = <<>>
  /\ parsed' = NotParsed
  /\ idx' = 1
  /\ row_val' = NoneV
  /\ filtered' = <<>>
  /\ result' = Pending
  /\ stages' = <<>>
  /\ UNCHANGED <<engineVars, loads, steps>>

NextCli ==
  \/ MainContinue
  \/ MainExit
  \/ MainHelp
  \/ MainLoad
  \/ ExecuteSql
  \/ WhereStart
  \/ WhereLoop
  \/ WhereReturn
  \/ Aggregate
  \/ Project
  \/ ExecuteSqlReturn

InitCli ==
  /\ pc = "prompt"
  /\ NoRun
  /\ InitEngine
  /\ InitSession

SpecCli == InitCli /\ [][NextCli]_vars

(***************************************************************************)
(* The grammar of the specification, as a recogniser that is independent   *)
(* of the parser's patterns:                                               *)
(*   query      := SELECT selectPart FROM identifier [WHERE wherePart]     *)
(*   selectPart := "*" | COUNT "(" ("*" | identifier) ")"              *)
(*                 | identifier ("," identifier)...                        *)
(*   wherePart  := identifier operator literal                             *)
(*   literal    := ' text ' | integer | float                              *)
(* with whitespace between the tokens as the parser's own rules allow it.  *)
(***************************************************************************)
AllSpaces(x) == \A i \in 1..Len(x) : IsSpace(x[i])

GIdentifier(x) == x # <<>> /\ \A i \in 1..Len(x) : IsWord(x[i])

GInteger(x) == x # <<>> /\ AllDigits(x)

GFloat(x) ==
  \E d \in 1..Len(x) :
    /\ x[d] = "."
    /\ Len(x) >= 2
    /\ AllDigits(SubSeq(x, 1, d - 1))
    /\ AllDigits(SubSeq(x, d + 1, Len(x)))

GQuoted(x) == Len(x) >= 2 /\ x[1] = "'" /\ x[Len(x)] = "'"

GLiteral(x) == GQuoted(x) \/ GInteger(x) \/ GFloat(x)

GCount(x) ==
  \E p \in (Len(kCOUNT) + 1)..(Len(x) - 1) :
    /\ MatchWord(x, 1, kCOUNT)
    /\ AllSpaces(SubSeq(x, Len(kCOUNT) + 1, p - 1))
    /\ x[p] = "("
    /\ x[Len(x)] = ")"
    /\ LET inner == Strip(SubSeq(x, p + 1, Len(x) - 1)) IN
       inner = StarT \/ GIdentifier(inner)

GColumnList(x) ==
  LET pieces == Split(x, ",") IN \A i \in DOMAIN pieces : GIdentifier(Strip(pieces[i]))

GSelectPart(x) == x = StarT \/ GCount(x) \/ GColumnList(x)

\* x is identifier, operator op, literal.
GWhereWith(x, op) ==
  \E i \in 1..Len(x) :
    /\ GIdentifier(SubSeq(x, 1, i))
    /\ LET j == SpaceEnd(x, i + 1) IN
       /\ MatchLit(x, j, op)
       /\ GLiteral(Strip(SubSeq(x, j + Len(op), Len(x))))

GWherePart(x) == \E op \in Operators : GWhereWith(x, op)

InGrammar(s) ==
  /\ MatchWord(s, 1, kSELECT)
  /\ \E f \in (Len(kSELECT) + 2)..Len(s) :
       /\ MatchWord(s, f, kFROM)
       /\ IsSpace(s[Len(kSELECT) + 1])
       /\ IsSpace(s[f - 1])
       /\ GSelectPart(Strip(SubSeq(s, Len(kSELECT) + 1, f - 1)))
       /\ f + Len(kFROM) <= Len(s)
       /\ IsSpace(s[f + Len(kFROM)])
       /\ LET post == SubSeq(s, f + Len(kFROM), Len(s)) IN
          \/ GIdentifier(Strip(post))
          \/ \E w \in 2..Len(post) :
               /\ MatchWord(post, w, kWHERE)
               /\ IsSpace(post[w - 1])
               /\ w + Len(kWHERE) <= Len(post)
               /\ IsSpace(post[w + Len(kWHERE)])
               /\ GIdentifier(Strip(SubSeq(post, 1, w - 1)))
               /\ GWherePart(Strip(SubSeq(post, w + Len(kWHERE), Len(post))))

(***************************************************************************)
(* Claims                                                                  *)
(***************************************************************************)
ParseDone == pc # "parse"

\* C1: parse_query returns a structured query only for texts derivable
\* from the grammar; every other text, a valid query followed by extra
\* tokens included, fails with a parse error.
C1_OnlyGrammarAccepted ==
  ParseDone => (parsed.ok => InGrammar(Strip(query)))

\* The WHERE part of the query text, as parse_query cuts it out.
WherePartOf(q) ==
  LET m == MatchSelect(Strip(q)) IN IF m.ok /\ m.has3 THEN Strip(m.g3) ELSE <<>>

OperatorChars == {"=", "!", "<", ">"}

RECURSIVE OperatorEnd(_, _)
OperatorEnd(s, i) ==
  IF i <= Len(s) /\ s[i] \in OperatorChars THEN OperatorEnd(s, i + 1) ELSE i

\* The operator as written: the run of operator characters that follows
\* the column name of a WHERE part.
WrittenOperator(W) ==
  LET j == SpaceEnd(W, WordEnd(W, 1)) IN SubSeq(W, j, OperatorEnd(W, j) - 1)

WrittenLiteral(W) ==
  LET j == SpaceEnd(W, WordEnd(W, 1)) IN Strip(SubSeq(W, OperatorEnd(W, j), Len(W)))

\* C8: a parsed WHERE clause has one of the six operators, namely the one
\* written (a two-character operator is parsed as that operator and the
\* query is accepted); a WHERE text whose operator is none of the six is
\* rejected by the parser, and no run ends in 'unknown operator'.
C8_OperatorDecidedByParser ==
  ParseDone =>
    LET W == WherePartOf(query) IN
    /\ parsed.ok /\ parsed.where_clause.present => parsed.where_clause.op \in Operators
    /\ parsed.ok /\ W # <<>> =>
         parsed.where_clause.present /\ parsed.where_clause.op = WrittenOperator(W)
    /\ W # <<>> /\ WrittenOperator(W) \notin Operators => ~parsed.ok
    /\ /\ W # <<>>
       /\ WordEnd(W, 1) > 1
       /\ WrittenOperator(W) \in Operators
       /\ GLiteral(WrittenLiteral(W))
       => parsed.ok \/ parsed.err = "Invalid column name"
    /\ result.msg # "unknown operator"

\* A query with a two-character operator ran to its end.
C8_Witness ==
  /\ pc = "done"
  /\ parsed.ok
  /\ parsed.where_clause.present
  /\ parsed.where_clause.op = opGE
  /\ result.status = "ok"
  /\ result.rows # <<>>

\* The comparison of a row's coerced cell with the literal holds.
Keeps(row, where_clause) ==
  Compare(CoerceValue(Get(row, where_clause.col), where_clause.val).v,
          where_clause.op, where_clause.val).b

KeepsParsed(row) == Keeps(row, parsed.where_clause)

\* What the filter of the parsed query is to return for the table.
KeptRows ==
  IF parsed.where_clause.present THEN SelectSeq(data, KeepsParsed) ELSE data

ExecuteDone == pc = "done" /\ parsed.ok

\* _apply_where_clause returned (it did not raise).
FilterReturned == pc = "select" \/ (ExecuteDone /\ Len(stages) = 2)

\* A select list that names a column no row of the table has.
NamesUnknownColumn ==
  /\ ~parsed.aggregate.present
  /\ parsed.select_cols # <<StarT>>
  /\ \E j \in 1..Len(parsed.select_cols) :
       \A i \in 1..Len(data) : ~HasKey(data[i], parsed.select_cols[j])

ColumnNotFound == Failure("ExecutionError", "column not found")

\* C2 as stated: on a non-empty table a select list naming an unknown
\* column fails with 'column not found', whatever rows (none included) the
\* WHERE clause keeps.
C2_UnknownColumnAlwaysFails ==
  ExecuteDone /\ Len(stages) = 2 /\ data # <<>> /\ NamesUnknownColumn
    => result = ColumnNotFound

\* C2 amended: it fails with 'column not found' when the filter keeps at
\* least one row; when the WHERE clause keeps no row the query succeeds
\* with the empty result.
C2_UnknownColumnFailsOnKeptRows ==
  ExecuteDone /\ Len(stages) = 2 /\ data # <<>> /\ NamesUnknownColumn
    => result = IF filtered # <<>> THEN ColumnNotFound ELSE Success(<<>>)

\* An unknown column is selected and the WHERE clause kept some rows but
\* not all.
C2_Witness ==
  /\ ExecuteDone /\ Len(stages) = 2 /\ NamesUnknownColumn
  /\ parsed.where_clause.present
  /\ filtered # <<>>
  /\ Len(filtered) < Len(data)
  /\ result = ColumnNotFound

ResultOf(r, rows) == IF r.ok THEN Success(rows) ELSE Failure("ExecutionError", r.msg)

\* C3: execute_query filters first and then either aggregates or projects,
\* never both: with an aggregate the result is the one row
\* aggregate(filter(rows)) under the single key COUNT(...), also when no row
\* is kept; without one it is project(filter(rows), select_cols).
C3_FilterThenAggregateOrProject ==
  ExecuteDone =>
    /\ Len(stages) \in {1, 2}
    /\ stages[1] = "where"
    /\ Len(stages) = 1 => result.status \notin {"ok", "pending"}
    /\ Len(stages) = 2 =>
         IF parsed.aggregate.present
         THEN /\ stages[2] = "aggregate"
              /\ LET r == ApplyAggregation(KeptRows, parsed.aggregate) IN
                 result = ResultOf(r, <<r.row>>)
              /\ result.status = "ok" =>
                   /\ Len(result.rows) = 1
                   /\ Len(result.rows[1]) = 1
                   /\ result.rows[1][1].key = CountKey(parsed.aggregate.column)
         ELSE /\ stages[2] = "projection"
              /\ LET r == ApplyProjection(KeptRows, parsed.select_cols) IN
                 result = ResultOf(r, r.rows)

\* An aggregate over a non-empty table of which the filter kept nothing.
C3_Witness ==
  /\ ExecuteDone
  /\ parsed.aggregate.present
  /\ parsed.where_clause.present
  /\ data # <<>>
  /\ filtered = <<>>
  /\ result.status = "ok"
  /\ Len(result.rows) = 1

\* C4: without a predicate the filter returns the rows as they are; with
\* one it returns, in input order and unchanged, exactly the rows whose
\* coerced cell compares true with the literal.
C4_FilterIsSelection ==
  /\ pc = "loop" => filtered = SelectSeq(SubSeq(data, 1, idx - 1), KeepsParsed)
  /\ FilterReturned =>
       filtered = IF parsed.where_clause.present THEN SelectSeq(data, KeepsParsed) ELSE data

\* The filter kept two different rows.
C4_Witness ==
  /\ pc = "select"
  /\ parsed.where_clause.present
  /\ Len(filtered) = 2
  /\ filtered[1] # filtered[2]

AggregateReturned ==
  /\ ExecuteDone
  /\ Len(stages) = 2
  /\ stages[2] = "aggregate"
  /\ result.status = "ok"

CountOf(r) == r.rows[1][1].val

\* C5: COUNT(*) is the number of filtered rows; COUNT(column) the number
\* of filtered rows in which the column is present, not null and not the
\* empty text.
C5_CountValue ==
  AggregateReturned =>
    LET col == parsed.aggregate.column IN
    CountOf(result) =
      IF col = StarT THEN IntV(Len(filtered))
      ELSE IntV(Cardinality({i \in 1..Len(filtered) :
                   /\ HasKey(filtered[i], col)
                   /\ Get(filtered[i], col).kind # "none"
                   /\ ~(Get(filtered[i], col).kind = "str" /\ Get(filtered[i], col).s = <<>>)}))

\* COUNT(column) counted some of the filtered rows and left others out.
C5_Witness ==
  /\ AggregateReturned
  /\ parsed.aggregate.column = colA
  /\ CountOf(result).n >= 1
  /\ CountOf(result).n < Len(filtered)

CountColumnRan ==
  /\ ExecuteDone
  /\ Len(stages) = 2
  /\ stages[2] = "aggregate"
  /\ parsed.aggregate.column # StarT

MissingSomewhere(rows, col) == \E i \in 1..Len(rows) : ~HasKey(rows[i], col)

CountZero(col) == Success(<< <<[key |-> CountKey(col), val |-> IntV(0)]>> >>)

\* C6 as stated: COUNT(column) of no rows is 0 without a column check, and
\* of rows of which any lacks the column it fails with 'column not found'.
C6_MissingAnywhereFails ==
  CountColumnRan =>
    LET col == parsed.aggregate.column IN
    /\ filtered = <<>> => result = CountZero(col)
    /\ filtered # <<>> /\ MissingSomewhere(filtered, col) => result = ColumnNotFound

\* C6 amended: COUNT(column) of no rows is 0 without a column check; of a
\* non-empty row sequence it fails with 'column not found' exactly when the
\* first row lacks the column, and else succeeds (rows lacking the column
\* are not counted).
C6_MissingInFirstRowFails ==
  CountColumnRan =>
    LET col == parsed.aggregate.column IN
    /\ filtered = <<>> => result = CountZero(col)
    /\ filtered # <<>> =>
         IF HasKey(filtered[1], col) THEN result.status = "ok"
         ELSE result = ColumnNotFound

\* COUNT(column) succeeded although a later row lacks the column.
C6_Witness ==
  /\ CountColumnRan
  /\ filtered # <<>>
  /\ HasKey(filtered[1], parsed.aggregate.column)
  /\ MissingSomewhere(filtered, parsed.aggregate.column)
  /\ result.status = "ok"

\* str < str, stated on positions: the texts agree up to some place where
\* the first ends or has the smaller character.
TextLess(a, b) ==
  \E k \in 0..Len(a) :
    /\ k <= Len(b)
    /\ SubSeq(a, 1, k) = SubSeq(b, 1, k)
    /\ \/ k = Len(a) /\ k < Len(b)
       \/ k < Len(a) /\ k < Len(b) /\ Code(a[k + 1]) < Code(b[k + 1])

TextHolds(a, op, b) ==
  CASE op = opEQ -> a = b
    [] op = opNE -> a # b
    [] op = opGT -> TextLess(b, a)
    [] op = opLT -> TextLess(a, b)
    [] op = opGE -> ~TextLess(a, b)
    [] op = opLE -> ~TextLess(b, a)

TextKeepsParsed(row) ==
  TextHolds(PyStr(Get(row, parsed.where_clause.col)), parsed.where_clause.op,
            parsed.where_clause.val.s)

TextLiteralRun ==
  /\ parsed.ok
  /\ parsed.where_clause.present
  /\ parsed.where_clause.val.kind = "str"
  /\ pc \in {"loop", "select", "done"}
  /\ \A i \in 1..Len(data) : HasKey(data[i], parsed.where_clause.col)

\* C7: against a quoted literal the comparison of a cell of any kind
\* (text, integer, float, None) raises nothing under any of the six
\* operators and is the text comparison of the cell's text form with the
\* literal, also when the cell looks numeric.
C7_TextLiteralComparesAsText ==
  TextLiteralRun =>
    /\ ~(pc = "done" /\ Len(stages) = 1)
    /\ filtered = SelectSeq(SubSeq(data, 1, idx - 1), TextKeepsParsed)

\* The cell "25" is kept by < '3': smaller as a text, larger as a number.
C7_Witness ==
  /\ TextLiteralRun
  /\ pc = "select"
  /\ parsed.where_clause.op = opLT
  /\ parsed.where_clause.val = StrV(<<"3">>)
  /\ Get(data[1], colA) = StrV(<<"2", "5">>)
  /\ filtered = data

\* The number v is the decimal the text spells.
Spells(text, v) ==
  LET dots == {i \in 1..Len(text) : text[i] = "."}
      digits == SelectSeq(text, IsDigit)
      frac == IF dots = {} THEN 0 ELSE Len(text) - (CHOOSE i \in dots : TRUE)
  IN v.n * Pow10(frac) = DigitsVal(digits, 0) * Pow10(v.k)

NumericLiteralRun ==
  /\ parsed.ok
  /\ parsed.where_clause.present
  /\ IsNumber(parsed.where_clause.val)
  /\ pc \in {"loop", "select", "done"}

LoopFailed == pc = "done" /\ Len(stages) = 1

\* C9: against a numeric literal a text cell becomes a Float if the
\* literal is a Float or the cell's text has a decimal point, and else an
\* Integer, with the value the text spells (it fails only if the text
\* spells no such number); a cell of the literal's kind is left as it is.
C9_NumericCoercion ==
  NumericLiteralRun =>
    LET lit == parsed.where_clause.val
        col == parsed.where_clause.col
    IN
    /\ idx > 1 /\ ~LoopFailed =>
         LET cell == Get(data[idx - 1], col) IN
         /\ cell.kind = "str" =>
              /\ row_val.kind =
                   IF lit.kind = "float" \/ Contains(cell.s, ".") THEN "float" ELSE "int"
              /\ Spells(Strip(cell.s), row_val)
         /\ cell.kind = lit.kind => row_val = cell
    /\ LoopFailed /\ HasKey(data[idx], col) /\ Get(data[idx], col).kind = "str" =>
         LET text == Strip(Get(data[idx], col).s) IN
         /\ ~GInteger(text)
         /\ lit.kind = "float" \/ Contains(text, ".") => ~GFloat(text)

\* The integer literal 30 met the cell "30.5", which became the float 30.5
\* and compared greater.
C9_Witness ==
  /\ NumericLiteralRun
  /\ pc = "select"
  /\ parsed.where_clause.val = IntV(30)
  /\ parsed.where_clause.op = opGT
  /\ Get(data[1], colA) = StrV(<<"3", "0", ".", "5">>)
  /\ row_val = FloatV(305, 1)
  /\ filtered = data

\* A cell no number can be read from: None, or a text that spells none.
Unparseable(cell) ==
  \/ cell.kind = "none"
  \/ cell.kind = "str" /\ ~GInteger(Strip(cell.s)) /\ ~GFloat(Strip(cell.s))

\* C10: with a numeric literal, one row whose cell is no number fails the
\* whole query with an ExecutionError and no rows, whatever the other rows
\* are; no run ends in another kind of exception.
C10_BadCellFailsQuery ==
  /\ pc = "done" => result.status \in {"ok", "ExecutionError", "QueryParseError"}
  /\ NumericLiteralRun /\ pc = "done" =>
       LET col == parsed.where_clause.col IN
       (\E i \in 1..Len(data) : HasKey(data[i], col) /\ Unparseable(Get(data[i], col)))
         => result.status = "ExecutionError" /\ result.rows = <<>>

\* The first row has a cell that is no number and the query failed on it,
\* though the row after it satisfies the predicate.
C10_Witness ==
  /\ NumericLiteralRun
  /\ LoopFailed
  /\ result = Failure("ExecutionError", "cannot compare")
  /\ idx = 1
  /\ Len(data) = 2
  /\ Unparseable(Get(data[1], parsed.where_clause.col))
  /\ HasKey(data[2], parsed.where_clause.col)
  /\ WhereRow(data[2], parsed.where_clause).keep

\* execute_query returned from _apply_projection (step 3), which did not
\* raise on a non-empty filtered sequence.
ProjectionRan ==
  /\ ExecuteDone
  /\ Len(stages) = 2
  /\ stages[2] = "projection"
  /\ filtered # <<>>

\* The column names of a row, in the row's order.
Keys(row) == [i \in 1..Len(row) |-> row[i].key]

\* The positions of a column list at which a column is requested for the
\* first time.
FirstRequests(cols) ==
  LET First(j) == \A k \in 1..(j - 1) : cols[k] # cols[j]
      Positions == SelectSeq([j \in 1..Len(cols) |-> j], First)
  IN  [i \in 1..Len(Positions) |-> cols[Positions[i]]]

AllColumnsExist(rows, cols) ==
  \A i \in 1..Len(rows) : \A j \in 1..Len(cols) : HasKey(rows[i], cols[j])

\* C11: projecting a non-empty row sequence onto an explicit column list
\* whose columns all exist returns one row per input row, in input order,
\* each holding exactly the requested columns in the requested order (a row
\* is a mapping: a column requested again keeps its first place) with the
\* input row's values; projecting onto the all-columns sentinel returns
\* the input rows unchanged.
C11_ProjectionShape ==
  ProjectionRan =>
    IF parsed.select_cols = <<StarT>> THEN result = Success(filtered)
    ELSE AllColumnsExist(filtered, parsed.select_cols) =>
           /\ result.status = "ok"
           /\ Len(result.rows) = Len(filtered)
           /\ \A i \in 1..Len(filtered) :
                /\ Keys(result.rows[i]) = FirstRequests(parsed.select_cols)
                /\ \A j \in 1..Len(parsed.select_cols) :
                     Get(result.rows[i], parsed.select_cols[j])
                       = Get(filtered[i], parsed.select_cols[j])

\* Two different rows were projected onto two columns requested in the
\* opposite of the rows' column order.
C11_Witness ==
  /\ ProjectionRan
  /\ parsed.select_cols = <<colA, colN>>
  /\ Len(filtered) = 2
  /\ filtered[1] # filtered[2]
  /\ Keys(filtered[1]) = <<colN, colA>>
  /\ result.status = "ok"
  /\ Len(result.rows) = 2

\* The literal of the query's WHERE part, when the part is a column name,
\* one of the six operators and a non-empty rest (the text _parse_value is
\* given); the empty text otherwise.
WhereLiteral ==
  LET W == WherePartOf(query) IN
  IF W # <<>> /\ WordEnd(W, 1) > 1 /\ WrittenOperator(W) \in Operators
  THEN WrittenLiteral(W) ELSE <<>>

\* C12: a WHERE literal is parsed as a Text value only when it is wrapped
\* in a pair of single quotes (an opening first and a distinct closing last
\* character), the value being the text between them; every other literal
\* is parsed as Integer when it has no '.', as Float when it has one, and
\* fails with 'invalid value' when it is not a number.  A lone quote is
\* not a Text value.
C12_TextOnlyInQuotePair ==
  ParseDone /\ WhereLiteral # <<>> /\ parsed.err # "Invalid column name" =>
    LET L == WhereLiteral
        val == parsed.where_clause.val
    IN
    IF GQuoted(L)
    THEN parsed.ok /\ val = StrV(SubSeq(L, 2, Len(L) - 1))
    ELSE IF ~Contains(L, ".")
    THEN IF GInteger(L)
         THEN parsed.ok /\ val = IntV(DigitsVal(L, 0))
         ELSE ~parsed.ok /\ parsed.err = "Invalid value"
    ELSE IF GFloat(L)
         THEN parsed.ok /\ val.kind = "float" /\ Spells(L, val)
         ELSE ~parsed.ok /\ parsed.err = "Invalid value"

\* A file that load_csv accepts: it exists, its suffix is .csv in any case,
\* it has a header line and at least one data row.
Loadable(file_path) ==
  /\ FileAt(file_path).exists
  /\ UpperText(PathSuffix(file_path)) = <<".", "C", "S", "V">>
  /\ FileAt(file_path).header
  /\ FileAt(file_path).rows # <<>>

\* The session's successful loads, oldest first.
SuccessfulLoads == SelectSeq(loads, Loadable)

LoadedBefore == SuccessfulLoads # <<>>

\* The path of the last successful load.
CurrentPath == SuccessfulLoads[Len(SuccessfulLoads)]

\* execute_query has been invoked for the query being run.
Invoked == pc \in {"where", "loop", "select"} \/ stages # <<>>

\* The query text may be executed: a table was loaded before, the text
\* parses, and its table name is the name of the last loaded table.
MayExecute(q) ==
  LET p == ParseQuery(q) IN
  /\ LoadedBefore
  /\ p.ok
  /\ p.from_table = PathStem(CurrentPath)

\* C13: over every sequence of LOAD and query commands, execute_query is
\* invoked for a query only if a table has been successfully loaded before,
\* the text parsed without error and the parsed from_table equals the
\* currently loaded table's name exactly (it is then given that table's
\* rows); in every other case an error is reported and no query is executed.
C13_ExecuteOnlyOnLoadedTable ==
  /\ Invoked => MayExecute(query) /\ data = FileAt(CurrentPath).rows
  /\ pc = "done" /\ ~MayExecute(query) =>
       /\ stages = <<>>
       /\ result.status \in {"NoTableLoaded", "QueryParseError", "TableNotFound"}
       /\ printed \in {"No table loaded", "Parse Error", "Table not found"}

\* After two successful loads of different tables a query on the second
\* one was executed and returned rows.
C13_Witness ==
  /\ pc = "done"
  /\ stages # <<>>
  /\ Len(SuccessfulLoads) = 2
  /\ PathStem(SuccessfulLoads[1]) # PathStem(SuccessfulLoads[2])
  /\ parsed.from_table = PathStem(SuccessfulLoads[2])
  /\ result.status = "ok"
  /\ result.rows # <<>>

\* C14: a LOAD that fails (file missing, not a CSV, no header or no data
\* rows) leaves data, table_name and is_loaded unchanged, so that a table
\* loaded before stays queryable under its old name; is_loaded never
\* returns to false, and while it is true the held data has a row.
C14_FailedLoadKeepsTable ==
  /\ [][loads' # loads /\ ~Loadable(loads'[Len(loads')]) => UNCHANGED engineVars]_vars
  /\ [][is_loaded => is_loaded']_vars
  /\ [](is_loaded => self_data # <<>>)
  /\ [](LoadedBefore =>
          /\ is_loaded
          /\ table_name = PathStem(CurrentPath)
          /\ self_data = FileAt(CurrentPath).rows)
  /\ [](pc = "done" /\ MayExecute(query) => stages # <<>>)

\* A table was loaded, a second LOAD failed, and a query under the old
\* name then returned rows.
C14_Witness ==
  /\ Len(loads) = 2
  /\ Loadable(loads[1])
  /\ ~Loadable(loads[2])
  /\ pc = "done"
  /\ parsed.from_table = PathStem(loads[1])
  /\ table_name = PathStem(loads[1])
  /\ result.status = "ok"
  /\ result.rows # <<>>

====
